---- MODULE Spec2Model ----
(***************************************************************************)
(* A model of text-search's CountedSet (src/text-search/src/counted_set.rs).*)
(*                                                                         *)
(* CountedSet wraps a pointer `raw` to a native tsearch_countedset.  The   *)
(* model keeps the wrapper objects (`raw`), the native heap the pointers   *)
(* lead to (`heap`), a record of the last call with its arguments and its  *)
(* returned value (`last`), and whether a call has panicked (`panicked`).  *)
(*                                                                         *)
(* The native tsearch_countedset functions are compiled from               *)
(* vendor/GNETextSearch by src/text-search-sys/build.rs; their C source is *)
(* not part of the sources at hand, so they are modelled from the          *)
(* documented behaviour of the counted set.  The wrapper methods are       *)
(* translated from counted_set.rs.                                         *)
(***************************************************************************)
EXTENDS Integers, Sequences, FiniteSets, TLC

\* ---------------------------------------------------------------- bounds
\* How many distinct integers the callers use.
NumKeys == 2
\* The highest total weight (sum of counts) a set is driven to.
MaxWeight == 3

\* The i64 values used as set members (negative values included).
Keys == (-1)..(NumKeys - 2)

\* The CountedSet variables of a caller, named as in the tests.
Handles == {"set", "other"}

\* Native addresses a tsearch_countedset_ptr can hold, and the null pointer.
Addr == {"a1", "a2"}
NULL == "null"

\* _Result values: 1 is success (the only value `expect` accepts).
success == 1
failure == 0

NoKey == "none"

VARIABLES raw, heap, last, panicked

vars == <<raw, heap, last, panicked>>

\* ------------------------------------------------- native counted set
\* A native set is a mapping from the stored integers to their counts.
EmptyInts == [i \in {} |-> 0]

FreeBlock == [live |-> FALSE, ints |-> EmptyInts]

\* An address the allocator can hand out, NULL when there is none or when
\* the allocation fails (oom).
malloc(hp, oom) ==
  IF oom \/ \A a \in Addr : hp[a].live
    THEN NULL
    ELSE CHOOSE a \in Addr : ~hp[a].live

tsearch_countedset_init(hp) ==
  LET p == malloc(hp, FALSE)
  IN  [ptr |-> p, heap |-> [hp EXCEPT ![p] = [live |-> TRUE, ints |-> EmptyInts]]]

tsearch_countedset_free(hp, p) == [hp EXCEPT ![p] = FreeBlock]

tsearch_countedset_copy(hp, p, oom) ==
  LET q == malloc(hp, oom)
  IN  IF q = NULL
        THEN [ptr |-> NULL, heap |-> hp]
        ELSE [ptr |-> q, heap |-> [hp EXCEPT ![q] = [live |-> TRUE, ints |-> hp[p].ints]]]

\* Number of distinct integers stored.
tsearch_countedset_get_count(hp, p) == Cardinality(DOMAIN hp[p].ints)

tsearch_countedset_contains_int(hp, p, integer) == integer \in DOMAIN hp[p].ints

tsearch_countedset_get_count_for_int(hp, p, integer) ==
  IF integer \in DOMAIN hp[p].ints THEN hp[p].ints[integer] ELSE 0

\* Adds one to the count of integer; a new entry needs storage and the call
\* fails, changing nothing, when that storage cannot be had (oom).
tsearch_countedset_add_int(hp, p, integer, oom) ==
  LET s == hp[p].ints
  IN  IF integer \in DOMAIN s
        THEN [result |-> success,
              heap |-> [hp EXCEPT ![p].ints = [s EXCEPT ![integer] = @ + 1]]]
        ELSE IF oom
          THEN [result |-> failure, heap |-> hp]
          ELSE [result |-> success,
                heap |-> [hp EXCEPT ![p].ints =
                            [i \in DOMAIN s \cup {integer} |->
                               IF i = integer THEN 1 ELSE s[i]]]]

\* Deletes the entry of integer whatever its count.
tsearch_countedset_remove_int(hp, p, integer) ==
  LET s == hp[p].ints
  IN  [result |-> success,
       heap |-> [hp EXCEPT ![p].ints = [i \in DOMAIN s \ {integer} |-> s[i]]]]

tsearch_countedset_remove_all_ints(hp, p) ==
  [result |-> success, heap |-> [hp EXCEPT ![p].ints = EmptyInts]]

\* Adds the counts of q to p, creating the entries p lacks.
tsearch_countedset_union(hp, p, q, oom) ==
  LET s == hp[p].ints
      o == hp[q].ints
      cnt(f, i) == IF i \in DOMAIN f THEN f[i] ELSE 0
  IN  IF oom /\ ~(DOMAIN o \subseteq DOMAIN s)
        THEN [result |-> failure, heap |-> hp]
        ELSE [result |-> success,
              heap |-> [hp EXCEPT ![p].ints =
                          [i \in DOMAIN s \cup DOMAIN o |-> cnt(s, i) + cnt(o, i)]]]

\* Keeps the integers of p that q holds too, adding q's counts to them.
tsearch_countedset_intersect(hp, p, q) ==
  LET s == hp[p].ints
      o == hp[q].ints
  IN  [result |-> success,
       heap |-> [hp EXCEPT ![p].ints =
                   [i \in DOMAIN s \cap DOMAIN o |-> s[i] + o[i]]]]

\* Subtracts q's counts from p's, deleting what falls to zero or below.
tsearch_countedset_minus(hp, p, q) ==
  LET s == hp[p].ints
      o == hp[q].ints
      cnt(f, i) == IF i \in DOMAIN f THEN f[i] ELSE 0
  IN  [result |-> success,
       heap |-> [hp EXCEPT ![p].ints =
                   [i \in {j \in DOMAIN s : s[j] > cnt(o, j)} |-> s[i] - cnt(o, i)]]]

\* Position of integer i in the sequence tie.
tie_pos(tie, i) == CHOOSE n \in 1..Len(tie) : tie[n] = i

RECURSIVE sort_by_count(_, _, _)
\* The integers of rest, highest count first; tie decides among equal counts.
sort_by_count(s, rest, tie) ==
  IF rest = {}
    THEN << >>
    ELSE LET best == CHOOSE i \in rest : \A j \in rest :
                       \/ s[i] > s[j]
                       \/ s[i] = s[j] /\ tie_pos(tie, i) <= tie_pos(tie, j)
         IN  <<best>> \o sort_by_count(s, rest \ {best}, tie)

\* Copies the stored integers, sorted by descending count, into a fresh
\* buffer and reports how many there are.
tsearch_countedset_copy_ints(hp, p, tie, oom) ==
  LET s == hp[p].ints
  IN  IF oom
        THEN [result |-> failure, integers |-> << >>, count |-> 0]
        ELSE [result |-> success,
              integers |-> sort_by_count(s, DOMAIN s, tie),
              count |-> Cardinality(DOMAIN s)]

RECURSIVE SumCounts(_, _)
SumCounts(s, ks) ==
  IF ks = {}
    THEN 0
    ELSE LET k == CHOOSE x \in ks : TRUE
         IN  s[k] + SumCounts(s, ks \ {k})

\* Total weight of the set at p: the sum of its counts.
Weight(hp, p) == SumCounts(hp[p].ints, DOMAIN hp[p].ints)

\* ------------------------------------------------------- CountedSet
\* _ResultExt::expect: TRUE when the call goes on, FALSE when it panics.
expect(result) == result = success

\* What a method leaves behind: the heap, the returned value, whether it
\* panicked instead of returning, and whether a native call in it reported a
\* failure (a result handed to expect that is not success).
Outcome(hp, value, ok) ==
  [heap |-> hp, ret |-> IF ok THEN value ELSE "panic", panic |-> ~ok, failed |-> ~ok]

new(hp) ==
  LET r == tsearch_countedset_init(hp)
  IN  Outcome(r.heap, r.ptr, TRUE)

\* len as the sum of the counts instead of the number of entries.
len_weight(hp, self) == Weight(hp, self)

len(hp, self) == tsearch_countedset_get_count(hp, self)

is_empty(hp, self) ==
  LET count == tsearch_countedset_get_count(hp, self)
  IN  count = 0

\* clear calling the native remove of one integer instead of remove-all.
clear_remove_int(hp, self) ==
  LET r == tsearch_countedset_remove_int(hp, self, 0)
  IN  Outcome(r.heap, "unit", expect(r.result))

clear(hp, self) ==
  LET r == tsearch_countedset_remove_all_ints(hp, self)
  IN  Outcome(r.heap, "unit", expect(r.result))

\* minus with the two sets handed to the native call the wrong way round.
minus_swapped(hp, self, other) ==
  LET r == tsearch_countedset_minus(hp, other, self)
  IN  Outcome(r.heap, "unit", expect(r.result))

minus(hp, self, other) ==
  LET r == tsearch_countedset_minus(hp, self, other)
  IN  Outcome(r.heap, "unit", expect(r.result))

\* intersect calling the native union.
intersect_as_union(hp, self, other) ==
  LET r == tsearch_countedset_union(hp, self, other, FALSE)
  IN  Outcome(r.heap, "unit", expect(r.result))

intersect(hp, self, other) ==
  LET r == tsearch_countedset_intersect(hp, self, other)
  IN  Outcome(r.heap, "unit", expect(r.result))

\* union calling the native intersect.
union_as_intersect(hp, self, other, oom) ==
  LET r == tsearch_countedset_intersect(hp, self, other)
  IN  Outcome(r.heap, "unit", expect(r.result))

union(hp, self, other, oom) ==
  LET r == tsearch_countedset_union(hp, self, other, oom)
  IN  Outcome(r.heap, "unit", expect(r.result))

contains(hp, self, value) == tsearch_countedset_contains_int(hp, self, value)

get_count(hp, self, value) == tsearch_countedset_get_count_for_int(hp, self, value)

\* insert reading the count before it adds.
insert_stale(hp, self, value, oom) ==
  LET r == tsearch_countedset_add_int(hp, self, value, oom)
  IN  Outcome(r.heap, tsearch_countedset_get_count_for_int(hp, self, value),
              expect(r.result))

insert(hp, self, value, oom) ==
  LET r == tsearch_countedset_add_int(hp, self, value, oom)
  IN  Outcome(r.heap, tsearch_countedset_get_count_for_int(r.heap, self, value),
              expect(r.result))

RECURSIVE remove_readd(_, _, _, _, _, _)
\* The loop of remove: `for _ in 0..new_count { add_int(raw, value); }`.
\* The result of each add_int is dropped; oom[i + 1] tells whether storage
\* is short in pass i.
remove_readd(hp, self, value, i, new_count, oom) ==
  IF i >= new_count
    THEN hp
    ELSE remove_readd(tsearch_countedset_add_int(hp, self, value, oom[i + 1]).heap,
                      self, value, i + 1, new_count, oom)

RECURSIVE remove_readd_failed(_, _, _, _, _, _)
\* Whether some add_int of that loop reported a failure (the result the
\* loop drops).
remove_readd_failed(hp, self, value, i, new_count, oom) ==
  IF i >= new_count
    THEN FALSE
    ELSE LET r == tsearch_countedset_add_int(hp, self, value, oom[i + 1])
         IN  \/ r.result # success
             \/ remove_readd_failed(r.heap, self, value, i + 1, new_count, oom)

\* remove with the loop written `0..=new_count`: one pass too many.
remove_inclusive(hp, self, value, oom) ==
  LET before == tsearch_countedset_get_count_for_int(hp, self, value)
  IN  IF before = 0
        THEN Outcome(hp, 0, TRUE)
        ELSE LET new_count == before - 1
                 r == tsearch_countedset_remove_int(hp, self, value)
                 more == oom @@ ((new_count + 1) :> FALSE)
             IN  IF ~expect(r.result)
                   THEN Outcome(r.heap, new_count, FALSE)
                   ELSE Outcome(remove_readd(r.heap, self, value, 0, new_count + 1, more),
                                new_count, TRUE)

remove(hp, self, value, oom) ==
  LET before == tsearch_countedset_get_count_for_int(hp, self, value)
  IN  IF before = 0
        THEN Outcome(hp, 0, TRUE)
        ELSE LET new_count == before - 1
                 r == tsearch_countedset_remove_int(hp, self, value)
             IN  IF ~expect(r.result)
                   THEN Outcome(r.heap, new_count, FALSE)
                   ELSE [Outcome(remove_readd(r.heap, self, value, 0, new_count, oom),
                                 new_count, TRUE)
                           EXCEPT !.failed =
                             remove_readd_failed(r.heap, self, value, 0, new_count, oom)]

\* remove_all reading the count after the entry is gone.
remove_all_late(hp, self, value) ==
  LET r == tsearch_countedset_remove_int(hp, self, value)
      before == tsearch_countedset_get_count_for_int(r.heap, self, value)
  IN  Outcome(r.heap, before > 0, expect(r.result))

remove_all(hp, self, value) ==
  LET before == tsearch_countedset_get_count_for_int(hp, self, value)
      r == tsearch_countedset_remove_int(hp, self, value)
  IN  Outcome(r.heap, before > 0, expect(r.result))

\* to_vec building the Vec one element short.
to_vec_short(hp, self, tie, oom) ==
  LET r == tsearch_countedset_copy_ints(hp, self, tie, oom)
      count == r.count
  IN  Outcome(hp, SubSeq(r.integers, 1, count - 1), expect(r.result))

to_vec(hp, self, tie, oom) ==
  LET r == tsearch_countedset_copy_ints(hp, self, tie, oom)
      count == r.count
  IN  Outcome(hp, SubSeq(r.integers, 1, count), expect(r.result))

\* A derived Clone: the pointer is copied, the native set is not.
clone_shallow(hp, self, oom) == Outcome(hp, self, TRUE)

\* Clone: the returned value is the `raw` of the new CountedSet.
clone(hp, self, oom) ==
  LET r == tsearch_countedset_copy(hp, self, oom)
  IN  Outcome(r.heap, r.ptr, r.ptr # NULL)

drop(hp, self) == Outcome(tsearch_countedset_free(hp, self), "unit", TRUE)

\* ---------------------------------------------------------- the program
NoHandle == "none"

Call(op, h, o, k, before, ret, failed) ==
  [op |-> op, h |-> h, o |-> o, k |-> k, before |-> before, ret |-> ret,
   failed |-> failed]

Live(h) == raw[h] # NULL

Init ==
  /\ raw = [h \in Handles |-> NULL]
  /\ heap = [a \in Addr |-> FreeBlock]
  /\ last = Call("init", NoHandle, NoHandle, NoKey, 0, "unit", FALSE)
  /\ panicked = FALSE

\* let h = CountedSet::new();
New(h) ==
  /\ ~panicked /\ ~Live(h)
  /\ LET res == new(heap)
     IN  /\ heap' = res.heap
         /\ raw' = [raw EXCEPT ![h] = res.ret]
         /\ last' = Call("new", h, NoHandle, NoKey, 0, "unit", res.failed)
         /\ panicked' = res.panic

\* h.insert(k);
Insert(h, k) ==
  /\ ~panicked /\ Live(h)
  /\ Weight(heap, raw[h]) < MaxWeight
  /\ \E oom \in BOOLEAN :
       LET res == insert(heap, raw[h], k, oom)
       IN  /\ heap' = res.heap
           /\ last' = Call("insert", h, NoHandle, k, get_count(heap, raw[h], k), res.ret, res.failed)
           /\ panicked' = res.panic
  /\ UNCHANGED raw

\* h.remove(k);
Remove(h, k) ==
  /\ ~panicked /\ Live(h)
  /\ \E oom \in [1..(get_count(heap, raw[h], k) - 1) -> BOOLEAN] :
       LET res == remove(heap, raw[h], k, oom)
       IN  /\ heap' = res.heap
           /\ last' = Call("remove", h, NoHandle, k, get_count(heap, raw[h], k), res.ret, res.failed)
           /\ panicked' = res.panic
  /\ UNCHANGED raw

\* h.remove_all(k);
RemoveAll(h, k) ==
  /\ ~panicked /\ Live(h)
  /\ LET res == remove_all(heap, raw[h], k)
     IN  /\ heap' = res.heap
         /\ last' = Call("remove_all", h, NoHandle, k, get_count(heap, raw[h], k), res.ret, res.failed)
         /\ panicked' = res.panic
  /\ UNCHANGED raw

\* h.clear();  (`before` records len() before the call)
Clear(h) ==
  /\ ~panicked /\ Live(h)
  /\ LET res == clear(heap, raw[h])
     IN  /\ heap' = res.heap
         /\ last' = Call("clear", h, NoHandle, NoKey, len(heap, raw[h]), res.ret, res.failed)
         /\ panicked' = res.panic
  /\ UNCHANGED raw

\* h.union(&o);  (the borrow rules keep o from being h)
Union(h, o) ==
  /\ ~panicked /\ Live(h) /\ Live(o) /\ h # o
  /\ Weight(heap, raw[h]) + Weight(heap, raw[o]) <= MaxWeight
  /\ \E oom \in BOOLEAN :
       LET res == union(heap, raw[h], raw[o], oom)
       IN  /\ heap' = res.heap
           /\ last' = Call("union", h, o, NoKey, 0, res.ret, res.failed)
           /\ panicked' = res.panic
  /\ UNCHANGED raw

\* h.intersect(&o);
Intersect(h, o) ==
  /\ ~panicked /\ Live(h) /\ Live(o) /\ h # o
  /\ Weight(intersect(heap, raw[h], raw[o]).heap, raw[h]) <= MaxWeight
  /\ LET res == intersect(heap, raw[h], raw[o])
     IN  /\ heap' = res.heap
         /\ last' = Call("intersect", h, o, NoKey, 0, res.ret, res.failed)
         /\ panicked' = res.panic
  /\ UNCHANGED raw

\* h.minus(&o);
Minus(h, o) ==
  /\ ~panicked /\ Live(h) /\ Live(o) /\ h # o
  /\ LET res == minus(heap, raw[h], raw[o])
     IN  /\ heap' = res.heap
         /\ last' = Call("minus", h, o, NoKey, 0, res.ret, res.failed)
         /\ panicked' = res.panic
  /\ UNCHANGED raw

\* The orders in which the native sort may leave integers of equal count.
TieOrders == {t \in [1..Cardinality(Keys) -> Keys] : \A k \in Keys : \E n \in DOMAIN t : t[n] = k}

\* let v = h.to_vec();
ToVec(h) ==
  /\ ~panicked /\ Live(h)
  /\ \E tie \in TieOrders, oom \in BOOLEAN :
       LET res == to_vec(heap, raw[h], tie, oom)
       IN  /\ heap' = res.heap
           /\ last' = Call("to_vec", h, NoHandle, NoKey, 0, res.ret, res.failed)
           /\ panicked' = res.panic
  /\ UNCHANGED raw

\* let o = h.clone();
Clone(h, o) ==
  /\ ~panicked /\ Live(h) /\ ~Live(o) /\ h # o
  /\ \E oom \in BOOLEAN :
       LET res == clone(heap, raw[h], oom)
       IN  /\ heap' = res.heap
           /\ raw' = [raw EXCEPT ![o] = IF res.panic THEN NULL ELSE res.ret]
           /\ last' = Call("clone", h, o, NoKey, 0, IF res.panic THEN "panic" ELSE "unit",
                            res.failed)
           /\ panicked' = res.panic

\* h goes out of scope.
Drop(h) ==
  /\ ~panicked /\ Live(h)
  /\ LET res == drop(heap, raw[h])
     IN  /\ heap' = res.heap
         /\ raw' = [raw EXCEPT ![h] = NULL]
         /\ last' = Call("drop", h, NoHandle, NoKey, 0, res.ret, res.failed)
         /\ panicked' = res.panic

Next ==
  \/ \E h \in Handles : New(h)
  \/ \E h \in Handles, k \in Keys : Insert(h, k)
  \/ \E h \in Handles, k \in Keys : Remove(h, k)
  \/ \E h \in Handles, k \in Keys : RemoveAll(h, k)
  \/ \E h \in Handles : Clear(h)
  \/ \E h \in Handles, o \in Handles : Union(h, o)
  \/ \E h \in Handles, o \in Handles : Intersect(h, o)
  \/ \E h \in Handles, o \in Handles : Minus(h, o)
  \/ \E h \in Handles : ToVec(h)
  \/ \E h \in Handles, o \in Handles : Clone(h, o)
  \/ \E h \in Handles : Drop(h)

Spec == Init /\ [][Next]_vars

\* ------------------------------------------------------------ claims
\* The set a live handle h denotes, seen through the public queries.
Count(h, k) == get_count(heap, raw[h], k)
Has(h, k) == contains(heap, raw[h], k)
CountNext(h, k) == get_count(heap', raw'[h], k)

\* The last call was op and it returned (it did not panic).
Returned(op) == last.op = op /\ ~panicked
ReturnedNext(op) == last'.op = op /\ ~panicked'

\* C1: in every reachable state no key is stored with a count of 0 or less:
\* for every set and key, contains(k) is true exactly when get_count(k) > 0,
\* every stored count is at least 1, and a key whose count remove brought to 0
\* (it returned 0), or that remove_all or clear took out, is absent.
C1_NoNonPositiveCount ==
  \A h \in Handles : Live(h) =>
    /\ \A k \in Keys :
         /\ Has(h, k) <=> Count(h, k) > 0
         /\ k \in DOMAIN heap[raw[h]].ints => heap[raw[h]].ints[k] >= 1
    /\ (Returned("remove") /\ last.h = h /\ last.ret = 0) =>
         ~Has(h, last.k) /\ Count(h, last.k) = 0
    /\ (Returned("remove_all") /\ last.h = h) =>
         ~Has(h, last.k) /\ Count(h, last.k) = 0
    /\ (Returned("clear") /\ last.h = h) =>
         \A k \in Keys : ~Has(h, k) /\ Count(h, k) = 0

\* A remove has just taken the last occurrence of a key out of a set that
\* still holds another key.
C1_Witness ==
  /\ Returned("remove") /\ last.before = 1 /\ last.ret = 0
  /\ ~Has(last.h, last.k)
  /\ \E j \in Keys : Has(last.h, j)

\* C2: insert(k) on a set where k has count c (0 if absent) leaves
\* get_count(k) = c + 1, returns c + 1 and changes no other key's count; so
\* the first insert into an empty set gives len() = 1 and further inserts of
\* the same key leave len() alone while the count grows by one each time.
C2_InsertIncrements ==
  [][ReturnedNext("insert") =>
       LET h == last'.h
           k == last'.k
           c == Count(h, k)
       IN  /\ CountNext(h, k) = c + 1
           /\ last'.ret = c + 1
           /\ last'.before = c
           /\ \A j \in Keys \ {k} : CountNext(h, j) = Count(h, j)
           /\ len(heap, raw[h]) = 0 => len(heap', raw'[h]) = 1
           /\ c >= 1 => len(heap', raw'[h]) = len(heap, raw[h])
     ]_vars

\* The third insert of one key into a set that holds nothing else.
C2_Witness ==
  /\ Returned("insert") /\ last.before = 2 /\ last.ret = 3
  /\ Count(last.h, last.k) = 3
  /\ len(heap, raw[last.h]) = 1

\* C3: remove(k) on a set where k has count c decrements by exactly one: with
\* c = 0 the set is unchanged and 0 is returned; with c >= 1 the count becomes
\* c - 1 (k absent when that is 0), the returned value is get_count(k) after
\* the call, and no other key's count changes.
C3_RemoveDecrementsByOne ==
  [][ReturnedNext("remove") =>
       LET h == last'.h
           k == last'.k
           c == Count(h, k)
       IN  /\ c = 0 => last'.ret = 0 /\ heap' = heap
           /\ c >= 1 => CountNext(h, k) = c - 1
           /\ last'.ret = CountNext(h, k)
           /\ contains(heap', raw'[h], k) <=> c >= 2
           /\ \A j \in Keys \ {k} : CountNext(h, j) = Count(h, j)
     ]_vars

\* A remove that returned 2 from a set holding three of the key.
C3_Witness ==
  /\ Returned("remove") /\ last.before = 3 /\ last.ret = 2

\* C4: remove_all(k) makes k absent in one call whatever its count, returns
\* true exactly when get_count(k) > 0 held before, leaves every other key's
\* count as it was, and a remove_all(k) repeated at once returns false.
C4_RemoveAllDeletes ==
  [][ReturnedNext("remove_all") =>
       LET h == last'.h
           k == last'.k
       IN  /\ CountNext(h, k) = 0
           /\ ~contains(heap', raw'[h], k)
           /\ last'.ret = (Count(h, k) > 0)
           /\ \A j \in Keys \ {k} : CountNext(h, j) = Count(h, j)
           /\ remove_all(heap', raw'[h], k).ret = FALSE
     ]_vars

\* remove_all has taken out a key that was held more than once, from a set
\* that holds another key.
C4_Witness ==
  /\ Returned("remove_all") /\ last.before >= 2 /\ last.ret = TRUE
  /\ \E j \in Keys : Has(last.h, j)

\* C5: after self.intersect(other) a key present in both has self's prior
\* count plus other's count; a key absent from other, or absent from self, is
\* absent from self.
C5_IntersectSumsCommonKeys ==
  [][ReturnedNext("intersect") =>
       LET h == last'.h
           o == last'.o
       IN  \A k \in Keys :
             IF Count(h, k) > 0 /\ Count(o, k) > 0
               THEN CountNext(h, k) = Count(h, k) + Count(o, k)
               ELSE CountNext(h, k) = 0 /\ ~contains(heap', raw'[h], k)
     ]_vars

\* An intersect that kept a common key with a summed count of 3, while other
\* holds a key that self does not.
C5_Witness ==
  /\ Returned("intersect")
  /\ \E k \in Keys : Count(last.h, k) = 3 /\ Count(last.o, k) >= 1
  /\ \E j \in Keys : Count(last.o, j) >= 1 /\ ~Has(last.h, j)

\* C6: after self.union(other) every key's count in self is self's prior
\* count (0 if absent) plus other's count (0 if absent).
C6_UnionAddsCounts ==
  [][ReturnedNext("union") =>
       LET h == last'.h
           o == last'.o
       IN  \A k \in Keys : CountNext(h, k) = Count(h, k) + Count(o, k)
     ]_vars

\* A union after which self holds a key other lacks, and a key of other whose
\* count in self is higher than in other.
C6_Witness ==
  /\ Returned("union")
  /\ \E k \in Keys : Has(last.h, k) /\ ~Has(last.o, k)
  /\ \E j \in Keys : Count(last.o, j) >= 1 /\ Count(last.h, j) >= Count(last.o, j)

\* C7: after self.minus(other) a key present in both with counts s and o has
\* count s - o when s > o and is absent when s <= o; a key of self absent
\* from other keeps its count; a key only in other stays absent.
C7_MinusClampsAtZero ==
  [][ReturnedNext("minus") =>
       LET h == last'.h
           o == last'.o
       IN  \A k \in Keys :
             LET s == Count(h, k)
                 t == Count(o, k)
             IN  /\ CountNext(h, k) >= 0
                 /\ (s > 0 /\ t > 0 /\ s > t) => CountNext(h, k) = s - t
                 /\ (s > 0 /\ t > 0 /\ s <= t) =>
                      CountNext(h, k) = 0 /\ ~contains(heap', raw'[h], k)
                 /\ (s > 0 /\ t = 0) => CountNext(h, k) = s
                 /\ s = 0 => CountNext(h, k) = 0 /\ ~contains(heap', raw'[h], k)
     ]_vars

\* A minus that left a reduced count for a key held by both, with a key of
\* other gone from (or never in) self.
C7_Witness ==
  /\ Returned("minus")
  /\ \E k \in Keys : Count(last.h, k) >= 1 /\ Count(last.o, k) >= 1
  /\ \E j \in Keys : Count(last.o, j) >= 1 /\ ~Has(last.h, j)

\* C8: to_vec() returns a sequence holding exactly the keys with
\* get_count > 0, each once (its length is len()), in an order where each
\* element's count is at least that of the element after it.
C8_ToVecSortedComplete ==
  Returned("to_vec") =>
    LET h == last.h
        v == last.ret
    IN  /\ Len(v) = len(heap, raw[h])
        /\ \A k \in Keys : Count(h, k) > 0 <=> \E n \in 1..Len(v) : v[n] = k
        /\ \A m, n \in 1..Len(v) : m # n => v[m] # v[n]
        /\ \A n \in 1..(Len(v) - 1) : Count(h, v[n]) >= Count(h, v[n + 1])

\* to_vec returned two keys of different counts.
C8_Witness ==
  /\ Returned("to_vec") /\ Len(last.ret) = 2
  /\ Count(last.h, last.ret[1]) > Count(last.h, last.ret[2])

Mutators == {"insert", "remove", "remove_all", "clear", "union", "intersect", "minus"}

\* C9: clone() returns a set with the source's get_count for every key, and
\* the source is left as it was; afterwards a mutating call on one set leaves
\* every get_count and len() of the other set unchanged.
C9_CloneIndependent ==
  [][/\ ReturnedNext("clone") =>
          /\ raw'[last'.o] # NULL
          /\ \A k \in Keys :
               /\ CountNext(last'.o, k) = Count(last'.h, k)
               /\ CountNext(last'.h, k) = Count(last'.h, k)
     /\ last'.op \in Mutators =>
          \A g \in Handles \ {last'.h} : Live(g) =>
            /\ \A k \in Keys : CountNext(g, k) = Count(g, k)
            /\ len(heap', raw'[g]) = len(heap, raw[g])
    ]_vars

\* A clone of a set of weight 2 or more has just been made.
C9_Witness ==
  /\ Returned("clone")
  /\ Live(last.o)
  /\ Weight(heap, raw[last.o]) >= 2
  /\ \A k \in Keys : Count(last.o, k) = Count(last.h, k)

\* C10: in every reachable state len() is the number of distinct keys with
\* get_count > 0, and is_empty() is true exactly when len() = 0.
C10_LenCountsDistinctKeys ==
  \A h \in Handles : Live(h) =>
    /\ len(heap, raw[h]) = Cardinality({k \in Keys : Count(h, k) > 0})
    /\ is_empty(heap, raw[h]) <=> len(heap, raw[h]) = 0

\* A remove has just taken a key out of a set that still holds another key
\* more than once: len() is 1, the sum of the counts is not.
C10_Witness ==
  /\ Returned("remove") /\ last.ret = 0 /\ last.before = 1
  /\ len(heap, raw[last.h]) = 1
  /\ Weight(heap, raw[last.h]) = 2
  /\ ~is_empty(heap, raw[last.h])

\* C11: after clear() the set is empty: is_empty() is true, len() = 0, and
\* contains(k) is false and get_count(k) = 0 for every key, whatever the
\* counts were before; the set stays usable: an insert(k) that follows
\* returns 1.
C11_ClearEmpties ==
  Returned("clear") =>
    LET h == last.h
    IN  /\ is_empty(heap, raw[h])
        /\ len(heap, raw[h]) = 0
        /\ \A k \in Keys :
             /\ ~Has(h, k)
             /\ Count(h, k) = 0
             /\ \A oom \in BOOLEAN :
                  LET r == insert(heap, raw[h], k, oom)
                  IN  ~r.panic => r.ret = 1 /\ get_count(r.heap, raw[h], k) = 1

\* clear has just emptied a set that held two keys.
C11_Witness ==
  /\ Returned("clear") /\ last.before = 2
  /\ is_empty(heap, raw[last.h])

\* C12: a failure reported by the native store inside a mutating call is
\* always surfaced as a panic: no mutating call returns normally after one of
\* its native calls failed, so the counts a caller sees agree with the
\* returned value; for remove, the returned count is get_count(k) after the
\* call.
C12_NativeFailurePanics ==
  /\ (last.op \in Mutators /\ last.failed) => panicked
  /\ Returned("remove") => last.ret = Count(last.h, last.k)

\* The same for every mutating call but remove.
C12_OthersPanicOnFailure ==
  (last.op \in Mutators \ {"remove"} /\ last.failed) => panicked

====
